---- MODULE Spec2Model ----
(***************************************************************************)
(* Model of email_sender.py: the production send loop of EmailAutomation,  *)
(* the company research cache of CompanyResearcher, the drafting of        *)
(* AIEmailGenerator and the HTML conversion of the mailer.                 *)
(*                                                                         *)
(* Strings are sequences of one-character strings.  Long literals of the   *)
(* source that the code only ever handles as a whole are one element:      *)
(* "SUBJECT:" (the marker of _parse_email), "LinkedIn:" and the URL prefix *)
(* "https://linkedin.com/" (the regular expression of _convert_to_html),   *)
(* and the texts the templates interpolate.                                *)
(***************************************************************************)
EXTENDS Integers, Sequences, FiniteSets, TLC

VARIABLES
    config,        \* names of the settings the config module defines
    daily_limit,   \* config.DAILY_LIMIT
    contacts,      \* rows of HR_Contact_List.xlsx, each the Email cell
    log,           \* rows of sent_log.csv: [email, status]
    log0,          \* number of log rows when the process started
    sent_emails,   \* EmailAutomation.sent_emails
    resume_mode,   \* argument of run_production
    auto_mode,     \* argument of run_production
    df,            \* the data frame run_production iterates over
    pos,           \* position of the for loop in df (1-based)
    pc,            \* position of the process
    sent_count,    \* local of run_production
    failed_count,  \* local of run_production
    draft,         \* (subject, body) returned by generate_email for the row
    send_ok,       \* value returned by send_email for the row
    trace,         \* history: what the run did, in order
    cache,         \* CompanyResearcher.cache
    calls,         \* history: the search_company calls made
    gen,           \* history: the last generate_email call
    html           \* history: the last _convert_to_html call

vars == <<config, daily_limit, contacts, log, log0, sent_emails, resume_mode,
          auto_mode, df, pos, pc, sent_count, failed_count, draft, send_ok,
          trace, cache, calls, gen, html>>

prodVars == <<config, daily_limit, contacts, log, log0, sent_emails,
              resume_mode, auto_mode, df, pos, pc, sent_count, failed_count,
              draft, send_ok, trace>>

researchVars == <<cache, calls>>

(***************************************************************************)
(* Bounds of the model.                                                    *)
(***************************************************************************)
MaxContacts == 2      \* rows of the contact list
MaxLimit == 2         \* largest DAILY_LIMIT tried

(***************************************************************************)
(* Strings.                                                                *)
(***************************************************************************)
\* str.lower, on the characters the model uses
LowerChar(c) ==
    CASE c = "A" -> "a"
      [] c = "N" -> "n"
      [] c = "C" -> "c"
      [] c = "SUBJECT:" -> "subject:"
      [] OTHER -> c

\* str.upper, on the characters the model uses
UpperChar(c) ==
    CASE c = "a" -> "A"
      [] c = "n" -> "N"
      [] c = "c" -> "C"
      [] c = "subject:" -> "SUBJECT:"
      [] OTHER -> c

Lower(s) == [i \in 1..Len(s) |-> LowerChar(s[i])]

Upper(s) == [i \in 1..Len(s) |-> UpperChar(s[i])]

\* the characters str.strip, str.split and \s treat as whitespace
IsSpace(c) == c \in {" ", "\n"}

RECURSIVE LStrip(_)
LStrip(s) == IF s # <<>> /\ IsSpace(Head(s)) THEN LStrip(Tail(s)) ELSE s

RECURSIVE RStrip(_)
RStrip(s) ==
    IF s # <<>> /\ IsSpace(s[Len(s)]) THEN RStrip(SubSeq(s, 1, Len(s) - 1)) ELSE s

\* str.strip
Strip(s) == RStrip(LStrip(s))

\* '@' in email
HasAt(s) == \E i \in 1..Len(s) : s[i] = "@"

\* s.startswith(p)
StartsWith(s, p) == Len(s) >= Len(p) /\ SubSeq(s, 1, Len(p)) = p

\* str.split('\n'): the pieces between the line breaks, empty pieces kept
RECURSIVE SplitLines(_)
SplitLines(s) ==
    IF \E i \in 1..Len(s) : s[i] = "\n"
    THEN LET i == CHOOSE k \in 1..Len(s) :
                      s[k] = "\n" /\ \A j \in 1..(k - 1) : s[j] # "\n"
         IN  <<SubSeq(s, 1, i - 1)>> \o SplitLines(SubSeq(s, i + 1, Len(s)))
    ELSE <<s>>

\* '\n'.join(lines)
RECURSIVE JoinLines(_)
JoinLines(ls) ==
    IF ls = <<>> THEN <<>>
    ELSE IF Len(ls) = 1 THEN ls[1]
    ELSE ls[1] \o <<"\n">> \o JoinLines(Tail(ls))

\* the first piece of str.split(): up to the first whitespace
RECURSIVE FirstToken(_)
FirstToken(s) ==
    IF s = <<>> \/ IsSpace(Head(s)) THEN <<>>
    ELSE <<Head(s)>> \o FirstToken(Tail(s))

(***************************************************************************)
(* AIEmailGenerator.                                                       *)
(***************************************************************************)
\* the honorifics generate_email strips, in the order of the source
Honorifics ==
    << <<"M", "r", ".">>, <<"M", "s", ".">>, <<"M", "r", "s", ".">>,
       <<"D", "r", ".">>, <<"M", "r">>, <<"M", "s">>, <<"M", "r", "s">>,
       <<"D", "r">> >>

\* the for loop over the honorifics, from the k-th on
RECURSIVE StripHonorifics(_, _)
StripHonorifics(clean_name, k) ==
    IF k > Len(Honorifics) THEN clean_name
    ELSE IF StartsWith(clean_name, Honorifics[k])
         THEN StripHonorifics(
                  Strip(SubSeq(clean_name, Len(Honorifics[k]) + 1, Len(clean_name))),
                  k + 1)
         ELSE StripHonorifics(clean_name, k + 1)

HiringManager == <<"Hiring Manager">>

\* first_name of generate_email
FirstName(hr_name) ==
    LET clean_name == StripHonorifics(Strip(hr_name), 1)
    IN  IF clean_name # <<>> THEN FirstToken(clean_name) ELSE HiringManager

YourCompany == <<"y", "o", "u", "r", " ", "c", "o", "m", "p", "a", "n", "y">>

\* company_clean of generate_email (company is a str: run_production passes
\* "" for a missing cell)
CompanyClean(company) == IF company # <<>> THEN Strip(company) ELSE YourCompany

\* the state of the for loop of _parse_email after the lines from the k-th on
RECURSIVE ParseLines(_, _, _)
ParseLines(lines, k, st) ==
    IF k > Len(lines) THEN st
    ELSE LET line == lines[k]
         IN  IF StartsWith(Upper(line), <<"SUBJECT:">>)
             THEN ParseLines(lines, k + 1,
                      [subject |-> Strip(SubSeq(line, 2, Len(line))),
                       body_lines |-> st.body_lines,
                       body_start |-> TRUE])
             ELSE IF st.body_start
             THEN ParseLines(lines, k + 1,
                      [st EXCEPT !.body_lines = Append(@, line)])
             ELSE ParseLines(lines, k + 1, st)

ParseEmail(content, company) ==
    LET lines == SplitLines(Strip(content))
        st == ParseLines(lines, 1,
                  [subject |-> <<>>, body_lines |-> <<>>, body_start |-> FALSE])
        body == Strip(JoinLines(st.body_lines))
    IN  [subject |-> IF st.subject = <<>>
                     THEN <<"Exploring Opportunities at ">> \o company
                     ELSE st.subject,
         body |-> IF body = <<>> THEN content ELSE body]

\* "no additional information" not in company_info
NoInfoMarker == "(no additional information found)"

HasNoInfoMarker(company_info) ==
    \E i \in 1..Len(company_info) : company_info[i] = NoInfoMarker

FallbackEmail(hr_name, company, company_info) ==
    LET company_hook ==
            IF company_info # <<>> /\ ~HasNoInfoMarker(company_info)
            THEN <<"I've been following ">> \o company \o <<"'s work ... ">>
            ELSE <<>>
    IN  [subject |-> <<"Application for Entry-Level Opportunity at ">> \o company,
         body |-> <<"Dear ">> \o hr_name \o <<",", "\n", "\n">> \o company_hook
                  \o <<"I am ", "YOUR_NAME", ", ", "YOUR_EXPERIENCE",
                       ". My skills in ", "YOUR_SKILLS", " align well with ">>
                  \o company
                  \o <<".", "\n", "\n", "I would love the opportunity ...",
                       "\n", "\n", "Best regards,", "\n", "YOUR_NAME", "\n",
                       "YOUR_LINKEDIN">>]

\* What requests.post and the decoding of its answer can do: raise
\* ("transport"), answer with another status than 200 ("status"), answer 200
\* with a JSON document without choices[0].message.content or with a content
\* that is no string ("shape"), or answer 200 with a content string ("ok").
AIKinds == {"transport", "status", "shape", "ok"}

\* generate_email, after the research: the try block and its handlers
GenerateEmail(hr_name, company, company_info, ai) ==
    LET first_name == FirstName(hr_name)
        company_clean == CompanyClean(company)
    IN  IF ai.kind = "ok"
        THEN ParseEmail(ai.content, company_clean)
        ELSE FallbackEmail(first_name, company_clean, company_info)

(***************************************************************************)
(* CompanyResearcher.                                                      *)
(***************************************************************************)
MaxCalls == 3         \* search_company calls on one researcher

EmptyResult ==
    [description |-> <<>>, heading |-> <<>>, related_info |-> <<>>,
     found |-> FALSE]

\* What the three sites answer at the time of a call: web.wiki, web.ddg and
\* web.bing say whether the strategy finds a usable text; a failed request, a
\* status other than 200 and an unusable answer are all "not found".
Webs == [wiki : BOOLEAN, ddg : BOOLEAN, bing : BOOLEAN]

SearchWikipedia(company_name, web) ==
    IF web.wiki
    THEN [description |-> <<"extract">>, heading |-> <<"title">>,
          related_info |-> <<>>, found |-> TRUE]
    ELSE EmptyResult

SearchDuckduckgo(company_name, web) ==
    IF web.ddg
    THEN [description |-> <<"Abstract">>, heading |-> <<"Heading">>,
          related_info |-> <<"RelatedTopics">>, found |-> TRUE]
    ELSE EmptyResult

ScrapeSearch(company_name, web) ==
    IF web.bing
    THEN [description |-> <<"snippet">>, heading |-> company_name,
          related_info |-> <<>>, found |-> TRUE]
    ELSE EmptyResult

NanName == <<"n", "a", "n">>

\* the placeholder test without 'your company' in its list
IsPlaceholder_NoYourCompany(company_name) ==
    company_name = <<>> \/ Lower(company_name) \in {NanName, <<>>}

\* not company_name or company_name.lower() in ['nan', 'your company', '']
IsPlaceholder(company_name) ==
    company_name = <<>> \/ Lower(company_name) \in {NanName, YourCompany, <<>>}

\* company_name.lower().strip()
CacheKey(company_name) == Strip(Lower(company_name))

\* search_company with the scrape made whatever DuckDuckGo returned
SearchCompany_ScrapeAlways(c, company_name, web) ==
    IF IsPlaceholder(company_name)
    THEN [result |-> EmptyResult, cache |-> c, net |-> <<>>,
          founds |-> <<>>]
    ELSE LET cache_key == CacheKey(company_name)
         IN  IF cache_key \in DOMAIN c
             THEN [result |-> c[cache_key], cache |-> c, net |-> <<>>,
                   founds |-> <<>>]
             ELSE LET r1 == SearchWikipedia(company_name, web)
                      r2 == IF ~r1.found
                            THEN SearchDuckduckgo(company_name, web) ELSE r1
                      r3 == ScrapeSearch(company_name, web)
                      net == <<"wikipedia">>
                             \o (IF ~r1.found THEN <<"duckduckgo">> ELSE <<>>)
                             \o <<"bing">>
                      founds == <<r1.found>>
                                \o (IF ~r1.found THEN <<r2.found>> ELSE <<>>)
                                \o <<r3.found>>
                 IN  [result |-> r3,
                      cache |-> [k \in DOMAIN c \cup {cache_key} |->
                                    IF k = cache_key THEN r3 ELSE c[k]],
                      net |-> net, founds |-> founds]

\* search_company: the result returned, the cache afterwards, and the
\* strategies called (each one is one or two network requests) with the found
\* flag each of them returned
SearchCompany(c, company_name, web) ==
    IF IsPlaceholder(company_name)
    THEN [result |-> EmptyResult, cache |-> c, net |-> <<>>,
          founds |-> <<>>]
    ELSE LET cache_key == CacheKey(company_name)
         IN  IF cache_key \in DOMAIN c
             THEN [result |-> c[cache_key], cache |-> c, net |-> <<>>,
                   founds |-> <<>>]
             ELSE LET r1 == SearchWikipedia(company_name, web)
                      r2 == IF ~r1.found
                            THEN SearchDuckduckgo(company_name, web) ELSE r1
                      r3 == IF ~r2.found
                            THEN ScrapeSearch(company_name, web) ELSE r2
                      net == <<"wikipedia">>
                             \o (IF ~r1.found THEN <<"duckduckgo">> ELSE <<>>)
                             \o (IF ~r2.found THEN <<"bing">> ELSE <<>>)
                      founds == <<r1.found>>
                                \o (IF ~r1.found THEN <<r2.found>> ELSE <<>>)
                                \o (IF ~r2.found THEN <<r3.found>> ELSE <<>>)
                 IN  [result |-> r3,
                      cache |-> [k \in DOMAIN c \cup {cache_key} |->
                                    IF k = cache_key THEN r3 ELSE c[k]],
                      net |-> net, founds |-> founds]

\* get_company_summary, from the result of search_company (the whitespace
\* normalisation and the cut to 500 characters leave the model's texts as they are)
CompanySummary(company_name, info) ==
    IF info.found
    THEN Strip(info.description
               \o (IF info.related_info # <<>>
                   THEN <<" ">> \o info.related_info ELSE <<>>))
    ELSE company_name \o <<" ", NoInfoMarker>>

EmptyCache == [k \in {} |-> EmptyResult]

\* the company names the calls are made with
NamePool ==
    { <<>>, NanName, <<"N", "a", "N">>, <<" ", "n", "a", "n">>, YourCompany,
      <<"a", "c">>, <<"A", "c", " ">> }

\* one call of search_company
SearchCompanyCall ==
    /\ Len(calls) < MaxCalls
    /\ \E company_name \in NamePool, web \in Webs :
          LET r == SearchCompany(cache, company_name, web)
          IN  /\ cache' = r.cache
              /\ calls' = Append(calls,
                     [name |-> company_name, result |-> r.result,
                      net |-> r.net, founds |-> r.founds,
                      before |-> cache, after |-> r.cache])
    /\ UNCHANGED <<prodVars, gen, html>>

(***************************************************************************)
(* EmailAutomation: the send log, the contact list and run_production.     *)
(***************************************************************************)
\* An Email cell of the data frame: a string, or the missing value (NaN)
Cell(str) == [na |-> FALSE, s |-> str]

NaCell == [na |-> TRUE, s |-> <<>>]

\* the Email cells the contact lists are made of: two spellings of one
\* address, a second address, a blank cell, a text without '@', the text
\* 'NaN' and a missing cell
EmailPool ==
    { Cell(<<"a", "@", "x">>), Cell(<<" ", "A", "@", "x">>),
      Cell(<<"b", "@", "x">>), Cell(<<" ">>), Cell(<<"a", "x">>),
      Cell(<<"N", "a", "N">>), NaCell }

\* the send logs a process can find when it starts: rows earlier runs wrote
\* with log_email (the address stripped, in the contact list's spelling)
Log0Pool ==
    { <<[email |-> <<"A", "@", "x">>, status |-> "sent"]>>,
      <<[email |-> <<"A", "@", "x">>, status |-> "failed"]>>,
      <<[email |-> <<"b", "@", "x">>, status |-> "sent"]>> }

\* sequences of at most n elements of S
SeqUpTo(S, n) == UNION { [1..k -> S] : k \in 0..n }

\* the settings config.example.py defines
ExampleConfig ==
    {"EMAIL_ADDRESS", "APP_PASSWORD", "OPENROUTER_API_KEY", "YOUR_NAME",
     "YOUR_PHONE", "YOUR_LINKEDIN", "YOUR_PORTFOLIO", "YOUR_SKILLS",
     "YOUR_EXPERIENCE", "YOUR_EDUCATION", "TARGET_ROLES", "DAILY_LIMIT",
     "TEST_EMAIL", "BCC_EMAIL"}

\* str(row['Email'])
StrCell(cell) == IF cell.na THEN NanName ELSE cell.s

\* email of the for loop: str(row['Email']).strip()
RowEmail(cell) == Strip(StrCell(cell))

\* load_sent_log with the lower-casing of the logged address left out
LoadSentLog_NoLower(rows) ==
    { rows[i].email : i \in { j \in 1..Len(rows) : rows[j].status = "sent" } }

\* load_sent_log: the skip-set read from the rows of the log
LoadSentLog(rows) ==
    { Lower(rows[i].email) : i \in { j \in 1..Len(rows) : rows[j].status = "sent" } }

\* ~df['Email'].str.lower().isin(self.sent_emails): a missing cell stays
\* missing under .str.lower() and is in no set
NotInSent(cell, sent) == cell.na \/ Lower(cell.s) \notin sent

\* df[~df['Email'].str.lower().isin(self.sent_emails)]
ResumeFilter(rows, sent) == SelectSeq(rows, LAMBDA cell : NotInSent(cell, sent))

\* df.head(n) left out: the whole frame
HeadRows_All(rows, n) == rows

\* df.head(n), n >= 0
HeadRows(rows, n) == SubSeq(rows, 1, IF n < Len(rows) THEN n ELSE Len(rows))

\* the validity test without its '@' test
IsInvalidEmail_NoAtTest(email) == email = <<>> \/ Lower(email) = NanName

\* not email or '@' not in email or email.lower() == 'nan'
IsInvalidEmail(email) == email = <<>> \/ ~HasAt(email) \/ Lower(email) = NanName

\* send_email with a handler that lets the authentication error through
SendEmail_AuthRaises(smtp) == [ok |-> smtp = "ok", raised |-> smtp = "auth"]

\* send_email: what it returns, and whether an exception leaves it, for what
\* the SMTP session does: "ok", "auth" (SMTPAuthenticationError) or "error"
\* (any other exception)
SendEmail(smtp) == [ok |-> smtp = "ok", raised |-> FALSE]

SmtpOutcomes == {"ok", "auth", "error"}

\* the Name and Company cells of every row (generate_email's handling of
\* other names and companies is explored by SpecDraft and SpecResearch)
RowName == <<"D", "r", ".", " ", "a">>

RowCompany == <<"a", "c">>

\* the research outcomes tried in the send loop: every strategy fails, and the
\* last one alone succeeds
LoopWebs ==
    { [wiki |-> FALSE, ddg |-> FALSE, bing |-> FALSE],
      [wiki |-> FALSE, ddg |-> FALSE, bing |-> TRUE] }

\* the answers of the AI endpoint tried in the send loop
LoopAIResponses ==
    { [kind |-> k, content |-> <<>>] : k \in {"transport", "status", "shape"} }
    \cup { [kind |-> "ok", content |-> c] :
             c \in { <<>>, <<"SUBJECT:", "x", "\n", "x">> } }

NoDraft == [subject |-> <<>>, body |-> <<>>, company_info |-> <<>>]

Event(op, row) == [op |-> op, row |-> row]

\* EmailAutomation(): the constructor reads the log into the skip-set
Construct ==
    /\ pc = "start"
    /\ sent_emails' = LoadSentLog(log)
    /\ pc' = "constructed"
    /\ UNCHANGED <<config, daily_limit, contacts, log, log0, resume_mode,
                   auto_mode, df, pos, sent_count, failed_count, draft,
                   send_ok, trace, cache, calls, gen, html>>

\* run_production, up to the confirmation prompt or the first row, with the
\* flags main() passes taken from the given sets
RunProductionIn(resumes, autos) ==
    /\ pc = "constructed"
    /\ \E resume \in resumes, auto \in autos :
          LET loaded == contacts
              filtered == IF resume THEN ResumeFilter(loaded, sent_emails)
                          ELSE loaded
          IN  /\ resume_mode' = resume
              /\ auto_mode' = auto
              /\ IF Len(filtered) = 0
                 THEN /\ df' = filtered
                      /\ pc' = "done"
                      /\ trace' = Append(trace, Event("all_sent", 0))
                 ELSE /\ df' = HeadRows(filtered, daily_limit)
                      /\ IF auto
                         THEN pc' = "loop" /\ trace' = trace
                         ELSE IF "DELAY_BETWEEN_EMAILS" \in config
                         THEN /\ pc' = "confirm"
                              /\ trace' = Append(trace, Event("prompt", 0))
                         ELSE /\ pc' = "crashed"
                              /\ trace' = Append(trace, Event("AttributeError", 0))
    /\ pos' = 1
    /\ sent_count' = 0
    /\ failed_count' = 0
    /\ UNCHANGED <<config, daily_limit, contacts, log, log0, sent_emails,
                   draft, send_ok, cache, calls, gen, html>>

\* run_production with any of --resume and --auto on the command line
RunProduction == RunProductionIn(BOOLEAN, BOOLEAN)

\* what the user types at the prompt
Typed == {"YES", "yes", ""}

\* confirm = input(...); if confirm != 'YES': return
Confirm ==
    /\ pc = "confirm"
    /\ \E confirm \in Typed :
          /\ trace' = Append(trace, Event(confirm, 0))
          /\ pc' = IF confirm # "YES" THEN "done" ELSE "loop"
    /\ UNCHANGED <<config, daily_limit, contacts, log, log0, sent_emails,
                   resume_mode, auto_mode, df, pos, sent_count, failed_count,
                   draft, send_ok, cache, calls, gen, html>>

\* the for loop is over: the summary is printed
LoopEnd ==
    /\ pc = "loop"
    /\ pos > Len(df)
    /\ pc' = "done"
    /\ trace' = Append(trace, Event("summary", 0))
    /\ UNCHANGED <<config, daily_limit, contacts, log, log0, sent_emails,
                   resume_mode, auto_mode, df, pos, sent_count, failed_count,
                   draft, send_ok, cache, calls, gen, html>>

\* a row with an invalid email: continue
SkipInvalid ==
    /\ pc = "loop"
    /\ pos <= Len(df)
    /\ IsInvalidEmail(RowEmail(df[pos]))
    /\ pos' = pos + 1
    /\ trace' = Append(trace, Event("skip_invalid", pos))
    /\ UNCHANGED <<config, daily_limit, contacts, log, log0, sent_emails,
                   resume_mode, auto_mode, df, pc, sent_count, failed_count,
                   draft, send_ok, cache, calls, gen, html>>

\* a row whose address is in the skip-set: continue
SkipSent ==
    /\ pc = "loop"
    /\ pos <= Len(df)
    /\ ~IsInvalidEmail(RowEmail(df[pos]))
    /\ Lower(RowEmail(df[pos])) \in sent_emails
    /\ pos' = pos + 1
    /\ trace' = Append(trace, Event("skip_sent", pos))
    /\ UNCHANGED <<config, daily_limit, contacts, log, log0, sent_emails,
                   resume_mode, auto_mode, df, pc, sent_count, failed_count,
                   draft, send_ok, cache, calls, gen, html>>

\* generate_email, first part: the company research of the row
Research ==
    /\ pc = "loop"
    /\ pos <= Len(df)
    /\ ~IsInvalidEmail(RowEmail(df[pos]))
    /\ Lower(RowEmail(df[pos])) \notin sent_emails
    /\ \E web \in LoopWebs :
          LET company_clean == CompanyClean(RowCompany)
              r == SearchCompany(cache, company_clean, web)
          IN  /\ cache' = r.cache
              /\ draft' = [NoDraft EXCEPT !.company_info =
                               CompanySummary(company_clean, r.result)]
    /\ pc' = "draft"
    /\ trace' = Append(trace, Event("research", pos))
    /\ UNCHANGED <<config, daily_limit, contacts, log, log0, sent_emails,
                   resume_mode, auto_mode, df, pos, sent_count, failed_count,
                   send_ok, calls, gen, html>>

\* generate_email without the handler of the AI call: a transport failure
\* leaves generate_email and ends the run
Draft_NoFallback ==
    /\ pc = "draft"
    /\ \E ai \in LoopAIResponses :
          IF ai.kind = "transport"
          THEN pc' = "crashed" /\ draft' = draft
          ELSE LET d == GenerateEmail(RowName, RowCompany, draft.company_info, ai)
               IN  /\ draft' = [subject |-> d.subject, body |-> d.body,
                                company_info |-> <<>>]
                   /\ pc' = "send"
    /\ trace' = Append(trace, Event("draft", pos))
    /\ UNCHANGED <<config, daily_limit, contacts, log, log0, sent_emails,
                   resume_mode, auto_mode, df, pos, sent_count, failed_count,
                   send_ok, cache, calls, gen, html>>

\* generate_email, second part: the AI call and the subject and body returned
Draft ==
    /\ pc = "draft"
    /\ \E ai \in LoopAIResponses :
          LET d == GenerateEmail(RowName, RowCompany, draft.company_info, ai)
          IN  draft' = [subject |-> d.subject, body |-> d.body,
                        company_info |-> <<>>]
    /\ pc' = "send"
    /\ trace' = Append(trace, Event("draft", pos))
    /\ UNCHANGED <<config, daily_limit, contacts, log, log0, sent_emails,
                   resume_mode, auto_mode, df, pos, sent_count, failed_count,
                   send_ok, cache, calls, gen, html>>

\* self.send_email(email, subject, body)
SendWith(outcomes) ==
    /\ pc = "send"
    /\ \E smtp \in outcomes :
          LET r == SendEmail(smtp)
          IN  IF r.raised
              THEN pc' = "crashed" /\ send_ok' = FALSE
              ELSE pc' = "record" /\ send_ok' = r.ok
    /\ trace' = Append(trace, Event("send", pos))
    /\ UNCHANGED <<config, daily_limit, contacts, log, log0, sent_emails,
                   resume_mode, auto_mode, df, pos, sent_count, failed_count,
                   draft, cache, calls, gen, html>>

\* send_email with whatever the SMTP server does
Send == SendWith(SmtpOutcomes)

\* the branches after send_email without self.sent_emails.add
Record_NoSkipSetUpdate ==
    /\ pc = "record"
    /\ LET email == RowEmail(df[pos])
       IN  IF send_ok
           THEN /\ sent_count' = sent_count + 1
                /\ failed_count' = failed_count
                /\ sent_emails' = sent_emails
                /\ log' = Append(log, [email |-> email, status |-> "sent"])
           ELSE /\ sent_count' = sent_count
                /\ failed_count' = failed_count + 1
                /\ sent_emails' = sent_emails
                /\ log' = Append(log, [email |-> email, status |-> "failed"])
    /\ pc' = IF sent_count' + failed_count' < Len(df) THEN "sleep" ELSE "loop"
    /\ pos' = pos + 1
    /\ draft' = NoDraft
    /\ trace' = Append(trace, Event("log", pos))
    /\ UNCHANGED <<config, daily_limit, contacts, log0, resume_mode, auto_mode,
                   df, send_ok, cache, calls, gen, html>>

\* the two branches after send_email, and the test for the delay
Record ==
    /\ pc = "record"
    /\ LET email == RowEmail(df[pos])
       IN  IF send_ok
           THEN /\ sent_count' = sent_count + 1
                /\ failed_count' = failed_count
                /\ sent_emails' = sent_emails \cup {Lower(email)}
                /\ log' = Append(log, [email |-> email, status |-> "sent"])
           ELSE /\ sent_count' = sent_count
                /\ failed_count' = failed_count + 1
                /\ sent_emails' = sent_emails
                /\ log' = Append(log, [email |-> email, status |-> "failed"])
    /\ pc' = IF sent_count' + failed_count' < Len(df) THEN "sleep" ELSE "loop"
    /\ pos' = pos + 1
    /\ draft' = NoDraft
    /\ trace' = Append(trace, Event("log", pos))
    /\ UNCHANGED <<config, daily_limit, contacts, log0, resume_mode, auto_mode,
                   df, send_ok, cache, calls, gen, html>>

\* time.sleep(delay)
Sleep ==
    /\ pc = "sleep"
    /\ pc' = "loop"
    /\ trace' = Append(trace, Event("sleep", pos - 1))
    /\ UNCHANGED <<config, daily_limit, contacts, log, log0, sent_emails,
                   resume_mode, auto_mode, df, pos, sent_count, failed_count,
                   draft, send_ok, cache, calls, gen, html>>

\* no call made yet
NoCall == [input |-> <<>>, output |-> <<>>, done |-> FALSE]

Init ==
    /\ config \in {ExampleConfig, ExampleConfig \cup {"DELAY_BETWEEN_EMAILS"}}
    /\ daily_limit \in 1..MaxLimit
    /\ contacts \in SeqUpTo(EmailPool, MaxContacts)
    /\ log \in {<<>>} \cup Log0Pool
    /\ log0 = Len(log)
    /\ sent_emails = {}
    /\ resume_mode = FALSE
    /\ auto_mode = FALSE
    /\ df = <<>>
    /\ pos = 1
    /\ pc = "start"
    /\ sent_count = 0
    /\ failed_count = 0
    /\ draft = NoDraft
    /\ send_ok = FALSE
    /\ trace = <<>>
    /\ cache = EmptyCache
    /\ calls = <<>>
    /\ gen = NoCall
    /\ html = NoCall

Next ==
    \/ Construct
    \/ RunProduction
    \/ Confirm
    \/ LoopEnd
    \/ SkipInvalid
    \/ SkipSent
    \/ Research
    \/ Draft
    \/ Send
    \/ Record
    \/ Sleep

Spec == Init /\ [][Next]_vars

(***************************************************************************)
(* Properties of run_production (specification Spec).                      *)
(***************************************************************************)
\* the rows of the log the process found when it started
StartupLog == SubSeq(log, 1, log0)

\* the rows of the log this process appended
Appended == SubSeq(log, log0 + 1, Len(log))

\* the log at startup holds a 'sent' row for the address, compared in lower case
MarkedSentAtStartup(email) ==
    \E j \in 1..log0 :
        log[j].status = "sent" /\ Lower(log[j].email) = Lower(email)

\* the events of the trace about row i of df, delays left out
RowEvents(i) ==
    SelectSeq(trace, LAMBDA e : e.row = i /\ e.op # "sleep")

RowOps(i) == [k \in 1..Len(RowEvents(i)) |-> RowEvents(i)[k].op]

\* row i of df was processed: researched, drafted, sent to or logged
Processed(i) ==
    \E k \in 1..Len(trace) :
        trace[k].row = i /\ trace[k].op \in {"research", "draft", "send", "log"}

LogEvents == SelectSeq(trace, LAMBDA e : e.op = "log")

CountStatus(rows, status) ==
    Cardinality({ k \in 1..Len(rows) : rows[k].status = status })

RunStarted == pc \notin {"start", "constructed"}

LoopFinished == pc = "done" /\ trace # <<>> /\ trace[Len(trace)].op = "summary"

\* the contacts of the list without a 'sent' row at startup, in file order
ContactsNotMarkedSent ==
    SelectSeq(contacts, LAMBDA cell : ~MarkedSentAtStartup(StrCell(cell)))

\* C1: in a run with resume_mode=True a contact is processed only if the
\* lower-cased form of its email (as written in the cell, and stripped) has no
\* 'sent' row in the log at startup, and the contacts without such a row stay
\* eligible: the rows the run iterates over are the first DAILY_LIMIT of them.
C1_ResumeSkipsSent ==
    (RunStarted /\ resume_mode) =>
        /\ \A i \in 1..Len(df) :
              Processed(i) =>
                  /\ ~MarkedSentAtStartup(StrCell(df[i]))
                  /\ ~MarkedSentAtStartup(RowEmail(df[i]))
        /\ \E n \in 0..Len(ContactsNotMarkedSent) :
              /\ df = SubSeq(ContactsNotMarkedSent, 1, n)
              /\ n < Len(ContactsNotMarkedSent) => n = daily_limit

\* C1 witness: the log holds a 'sent' row for A@x, the list is a@x, b@x, and the
\* resumed run has processed b@x alone.
C1_Witness ==
    /\ LoopFinished /\ resume_mode
    /\ StartupLog = <<[email |-> <<"A", "@", "x">>, status |-> "sent"]>>
    /\ contacts = <<Cell(<<"a", "@", "x">>), Cell(<<"b", "@", "x">>)>>
    /\ df = <<Cell(<<"b", "@", "x">>)>>
    /\ Processed(1)
    /\ sent_count + failed_count = 1

\* a contact with a valid email address not marked sent at startup
ValidUnsent(cell) ==
    /\ RowEmail(cell) # <<>>
    /\ HasAt(RowEmail(cell))
    /\ Lower(RowEmail(cell)) # NanName
    /\ ~MarkedSentAtStartup(RowEmail(cell))

NumValidUnsent ==
    Cardinality({ i \in 1..Len(contacts) : ValidUnsent(contacts[i]) })

C3_Invalid(email) ==
    \/ email = <<>>
    \/ \A i \in 1..Len(email) : email[i] # "@"
    \/ Lower(email) = <<"n", "a", "n">>

\* C3: a row whose email is empty, has no '@' or is 'nan' in any case is only
\* skipped: no research, draft, send or log event is about it, every row the
\* process appended to the log is the row of a log event of a valid row, and the
\* counters count exactly the appended 'sent' and 'failed' rows.
C3_InvalidRowsSkipped ==
    /\ \A i \in 1..Len(df) :
          C3_Invalid(RowEmail(df[i])) =>
              \A k \in 1..Len(RowOps(i)) : RowOps(i)[k] = "skip_invalid"
    /\ Len(Appended) = Len(LogEvents)
    /\ \A k \in 1..Len(Appended) :
          /\ Appended[k].email = RowEmail(df[LogEvents[k].row])
          /\ ~C3_Invalid(Appended[k].email)
    /\ sent_count = CountStatus(Appended, "sent")
    /\ failed_count = CountStatus(Appended, "failed")

\* C3 witness: a finished run that skipped an invalid row and processed another
C3_Witness ==
    /\ LoopFinished
    /\ \E i, j \in 1..Len(df) :
          /\ RowOps(i) = <<"skip_invalid">>
          /\ Processed(j)
    /\ Len(Appended) = 1

\* a step that handles a failed send
C5_FailedSendStep ==
    (pc = "record" /\ ~send_ok) =>
        /\ log' = Append(log, [email |-> RowEmail(df[pos]), status |-> "failed"])
        /\ sent_emails' = sent_emails
        /\ Lower(RowEmail(df[pos])) \notin sent_emails'
        /\ pos' = pos + 1
        /\ pc' \in {"sleep", "loop"}

\* C5: a failed send appends exactly one 'failed' row for the recipient, leaves
\* the skip-set as it is and moves the loop to the next row; no send ends the
\* run (the run never stops between the first row and the summary), and a
\* finished loop has visited every row of the truncated list.
C5_SendFailureContinues ==
    /\ [][C5_FailedSendStep]_vars
    /\ [](pc = "crashed" => ~(\E k \in 1..Len(trace) : trace[k].op = "send"))
    /\ [](LoopFinished => \A i \in 1..Len(df) : RowOps(i) # <<>>)

\* C5 witness: a finished run whose first row failed to send and whose second
\* row was processed after it
C5_Witness ==
    /\ LoopFinished
    /\ Len(Appended) = 2
    /\ Appended[1].status = "failed"
    /\ Processed(2)

\* the addresses in the skip-set when the loop reaches row i: those marked
\* sent at startup and those of the earlier rows whose send succeeded
InSkipSetAt(i) ==
    \/ MarkedSentAtStartup(RowEmail(df[i]))
    \/ \E k \in 1..Len(Appended) :
          /\ LogEvents[k].row < i
          /\ Appended[k].status = "sent"
          /\ Lower(Appended[k].email) = Lower(RowEmail(df[i]))

IsPrefix(s, t) == Len(s) <= Len(t) /\ s = SubSeq(t, 1, Len(s))

\* C6: a row reached by the loop with a valid email not in the skip-set goes
\* through research, draft, send, log in that order, each once, whatever the
\* research and the AI call give; when the run has ended every such row has had
\* its one send attempt and its one log row.
C6_EveryContactAttempted ==
    /\ \A i \in 1..Len(df) :
          (RowOps(i) # <<>> /\ ~C3_Invalid(RowEmail(df[i])) /\ ~InSkipSetAt(i))
              => /\ IsPrefix(RowOps(i), <<"research", "draft", "send", "log">>)
                 /\ (i < pos \/ pc \in {"done", "crashed"})
                        => RowOps(i) = <<"research", "draft", "send", "log">>
    /\ LoopFinished =>
          \A i \in 1..Len(df) :
              (~C3_Invalid(RowEmail(df[i])) /\ ~InSkipSetAt(i))
                  => RowOps(i) = <<"research", "draft", "send", "log">>
    /\ Len(Appended) = Len(LogEvents)

\* C6 witness: the first row has gone through its four steps, and the second
\* row, for which the research found nothing and the AI call failed, has its
\* fallback draft and is about to be sent
C6_Witness ==
    /\ pc = "send"
    /\ pos = 2
    /\ RowOps(1) = <<"research", "draft", "send", "log">>
    /\ RowOps(2) = <<"research", "draft">>
    /\ Len(Appended) = 1
    /\ cache # EmptyCache /\ \A k \in DOMAIN cache : ~cache[k].found
    /\ draft.subject = <<"Application for Entry-Level Opportunity at ">> \o RowCompany

\* the confirmation gate under the configuration cfg
C9_Gate(cfg) ==
    (RunStarted /\ ~auto_mode /\ config = cfg /\ df # <<>>) =>
        /\ trace # <<>> /\ trace[1].op = "prompt"
        /\ Len(trace) >= 2 =>
              IF trace[2].op = "YES"
              THEN pc # "done" \/ LoopFinished
              ELSE pc = "done" /\ Len(trace) = 2 /\ Appended = <<>>

\* C9 as claimed: with the settings of config.example.py and auto_mode=False a
\* run that has rows to send asks for the confirmation before any send, enters
\* the send loop exactly when 'YES' was typed, and otherwise ends with nothing
\* sent and nothing logged.
C9_ConfirmationGatesLoop == C9_Gate(ExampleConfig)

\* the gate holds of a configuration that also defines DELAY_BETWEEN_EMAILS,
\* the setting run_production reads before the prompt
C9_GateWithDelaySetting == C9_Gate(ExampleConfig \cup {"DELAY_BETWEEN_EMAILS"})

\* the run sleeps right after the k-th event of the trace
C13_SleepsAfter(k) ==
    IF k < Len(trace) THEN trace[k + 1].op = "sleep" ELSE pc = "sleep"

\* C13 as claimed: after a row is processed (its send logged as sent or
\* failed) the run sleeps if and only if the row is not the last row of the
\* truncated list; after the last row there is no sleep, also when earlier
\* rows of the list were skipped.
C13_SleepIffNotLastRow ==
    \A k \in 1..Len(trace) :
        trace[k].op = "log" => (C13_SleepsAfter(k) <=> trace[k].row < Len(df))

\* the half of it that holds: the run sleeps after every processed row that
\* is not the last one, and never without having processed a row
C13_SleepAfterEarlierRows ==
    /\ \A k \in 1..Len(trace) :
          (trace[k].op = "log" /\ trace[k].row < Len(df)) => C13_SleepsAfter(k)
    /\ \A k \in 1..Len(trace) :
          trace[k].op = "sleep" => (k > 1 /\ trace[k - 1].op = "log")

\* the run has slept after the last row of a list whose first row was skipped
C13_SleptAfterLastRow ==
    /\ pc = "done"
    /\ Len(df) = 2
    /\ \E k \in 1..Len(trace) : trace[k] = Event("sleep", 2)

(***************************************************************************)
(* Production runs one after the other (specification SpecRuns): main() is *)
(* started again after a run has ended, as a new process with the same     *)
(* contact list, the same settings and the log file the earlier runs left. *)
(***************************************************************************)
MaxLog == 2           \* rows in the log from which no further run is started

\* main() of a new process: nothing is kept but the files
NewProcess ==
    /\ pc \in {"done", "crashed"}
    /\ pc' = "start"
    /\ log0' = Len(log)
    /\ sent_emails' = {}
    /\ resume_mode' = FALSE
    /\ auto_mode' = FALSE
    /\ df' = <<>>
    /\ pos' = 1
    /\ sent_count' = 0
    /\ failed_count' = 0
    /\ draft' = NoDraft
    /\ send_ok' = FALSE
    /\ trace' = <<>>
    /\ cache' = EmptyCache
    /\ UNCHANGED <<config, daily_limit, contacts, log, calls, gen, html>>

\* another run, as long as the log is short
Restart == Len(log) < MaxLog /\ NewProcess

NextRuns ==
    \/ Next
    \/ Restart

SpecRuns == Init /\ [][NextRuns]_vars

\* an address as the claim compares it: trimmed and in lower case
C15_Address(email) == Lower(Strip(email))

\* the rows of the log that record a successful send to the address
C15_SentRows(address) ==
    { k \in 1..Len(log) :
        log[k].status = "sent" /\ C15_Address(log[k].email) = address }

\* C15: whatever production runs are made one after the other on one log,
\* with or without resume mode, no address (trimmed, case ignored) is sent to
\* successfully more than once, also when the contact list has it several
\* times: the log never has two 'sent' rows for one address, and no send
\* succeeds for an address that has a 'sent' row.
C15_NoAddressSentTwice ==
    /\ \A k \in 1..Len(log) :
          Cardinality(C15_SentRows(C15_Address(log[k].email))) <= 1
    /\ (pc = "record" /\ send_ok) =>
          C15_SentRows(C15_Address(RowEmail(df[pos]))) = {}

\* C15 witness: a run without resume mode has ended after it skipped ' A@x'
\* because an earlier run of the same list had sent to 'a@x'
C15_Witness ==
    /\ pc = "done"
    /\ ~resume_mode
    /\ log0 >= 1
    /\ log[log0] = [email |-> <<"a", "@", "x">>, status |-> "sent"]
    /\ contacts = <<Cell(<<"a", "@", "x">>), Cell(<<" ", "A", "@", "x">>)>>
    /\ \E k \in 1..Len(trace) : trace[k].op = "skip_sent"

(***************************************************************************)
(* Resumed runs repeated for ever (specification SpecProgress): every run  *)
(* is started with --resume --auto, every send succeeds, and a new run is  *)
(* started whenever one has ended.  The process takes its steps and main() *)
(* is started again and again, which is the weak fairness of the next-step *)
(* relation.                                                               *)
(***************************************************************************)
\* run_production(resume_mode=True, auto_mode=True)
ResumeAuto == RunProductionIn({TRUE}, {TRUE})

\* send_email when the SMTP server accepts every message
SendOk == SendWith({"ok"})

InitProgress == Init /\ config = ExampleConfig

NextProgress ==
    \/ Construct
    \/ ResumeAuto
    \/ LoopEnd
    \/ SkipInvalid
    \/ SkipSent
    \/ Research
    \/ Draft
    \/ SendOk
    \/ Record
    \/ Sleep
    \/ NewProcess

SpecProgress ==
    InitProgress /\ [][NextProgress]_vars /\ WF_vars(NextProgress)

\* every contact of the list with a valid email address has been sent to
C16_AllValidSent ==
    \A i \in 1..Len(contacts) :
        (~contacts[i].na /\ HasAt(Strip(contacts[i].s))) =>
            C15_SentRows(C15_Address(contacts[i].s)) # {}

\* C16 as claimed: with DAILY_LIMIT >= 1, a fixed contact list and every send
\* succeeding, resumed runs repeated one after the other eventually send to
\* every contact with a valid email address, and from then on a run reports
\* that all emails have been sent or processes nothing.
C16_EventuallyAllSent == <>[]C16_AllValidSent

\* a resumed run has ended without processing a row although a contact with
\* a valid address is still to be sent to: the next run starts from the same
\* files and does the same
C16_RunWithoutProgress ==
    /\ pc = "done"
    /\ ~C16_AllValidSent
    /\ Len(log) = log0
    /\ \A k \in 1..Len(trace) : trace[k].op \in {"skip_invalid", "skip_sent", "summary"}

\* a list whose cells are all valid addresses without surrounding blanks
C16_CleanList ==
    \A i \in 1..Len(contacts) :
        /\ ~contacts[i].na
        /\ HasAt(contacts[i].s)
        /\ Strip(contacts[i].s) = contacts[i].s

\* for such a list the runs do send to every contact in the end
C16_CleanListAllSent == C16_CleanList => <>[]C16_AllValidSent

(***************************************************************************)
(* The researcher alone (specification SpecResearch): calls of             *)
(* search_company on one CompanyResearcher.                                *)
(***************************************************************************)
\* the process is not running a production run
ProdIdle ==
    /\ config = ExampleConfig
    /\ daily_limit = 1
    /\ contacts = <<>>
    /\ log = <<>>
    /\ log0 = 0
    /\ sent_emails = {}
    /\ resume_mode = FALSE
    /\ auto_mode = FALSE
    /\ df = <<>>
    /\ pos = 1
    /\ pc = "off"
    /\ sent_count = 0
    /\ failed_count = 0
    /\ draft = NoDraft
    /\ send_ok = FALSE
    /\ trace = <<>>

InitResearch ==
    /\ ProdIdle
    /\ cache = EmptyCache
    /\ calls = <<>>
    /\ gen = NoCall
    /\ html = NoCall

NextResearch == SearchCompanyCall

SpecResearch == InitResearch /\ [][NextResearch]_vars

\* the names of the claim
C7_Names ==
    { <<>>, <<"n", "a", "n">>,
      <<"y", "o", "u", "r", " ", "c", "o", "m", "p", "a", "n", "y">> }

\* C7: search_company called with "", "nan" or "your company" returns
\* found=false, calls none of the three strategies and leaves the cache as it was.
C7_PlaceholderNoNetwork ==
    \A k \in 1..Len(calls) :
        calls[k].name \in C7_Names =>
            /\ ~calls[k].result.found
            /\ calls[k].net = <<>>
            /\ calls[k].after = calls[k].before

\* C7 witness: each of the three names has been searched, on a researcher
\* whose cache is not empty when "your company" is searched
C7_Witness ==
    /\ Len(calls) = 3
    /\ calls[1].result.found
    /\ calls[2].name = <<"n", "a", "n">>
    /\ calls[3].name = <<"y", "o", "u", "r", " ", "c", "o", "m", "p", "a", "n", "y">>
    /\ cache # EmptyCache

C11_Order == <<"wikipedia", "duckduckgo", "bing">>

C11_Description == <<(<<"extract">>), (<<"Abstract">>), (<<"snippet">>)>>

\* C11: a call of search_company with a name that is no placeholder and whose
\* key is not cached calls the strategies in the order Wikipedia, DuckDuckGo,
\* Bing scrape, each one only after all the earlier ones returned found=false
\* and none after one returned found=true; the result returned is that of the
\* last strategy called, and it is the one stored in the cache.
C11_StrategiesInOrder ==
    \A k \in 1..Len(calls) :
        LET call == calls[k]
            n == Len(call.net)
        IN  (/\ Lower(call.name) \notin C7_Names
             /\ Strip(Lower(call.name)) \notin DOMAIN call.before) =>
                /\ n \in 1..3
                /\ Len(call.founds) = n
                /\ \A m \in 1..n : call.net[m] = C11_Order[m]
                /\ \A m \in 1..n : call.founds[m] => m = n
                /\ n < 3 => call.founds[n]
                /\ call.result.found = call.founds[n]
                /\ call.result.found =>
                      call.result.description = C11_Description[n]
                /\ Strip(Lower(call.name)) \in DOMAIN call.after
                /\ call.after[Strip(Lower(call.name))] = call.result

\* C11 witness: one researcher has answered one name from DuckDuckGo after
\* Wikipedia failed, and another name from the scrape after both failed
C11_Witness ==
    /\ Len(calls) >= 2
    /\ calls[1].net = <<"wikipedia", "duckduckgo">> /\ calls[1].result.found
    /\ calls[2].net = C11_Order /\ calls[2].result.found
    /\ calls[2].before # EmptyCache

(***************************************************************************)
(* The drafter alone (specification SpecDraft): one call of generate_email.*)
(***************************************************************************)
MaxContent == 4       \* characters of the content the AI endpoint returns

ContentChars == {"SUBJECT:", "subject:", "x", " ", "\n"}

HrNamePool ==
    { <<>>, <<"D", "r", ".", " ", "a">>, <<"M", "r">>, <<"a", " ", "b">>,
      <<"M", "r", "s", " ", "a">>, <<"M", "r", "i">> }

CompanyPool == { <<>>, <<"a", "c">>, <<" ">> }

\* the calls tried with contents of at most n characters: every failure of the
\* AI call with every name, company and research outcome, and every content
\* string of a 200 answer
DraftInputs(n) ==
    [hr_name : HrNamePool, company : CompanyPool, web : Webs,
     ai : { [kind |-> k, content |-> <<>>] : k \in AIKinds \ {"ok"} }]
    \cup
    [hr_name : {RowName}, company : CompanyPool,
     web : {[wiki |-> FALSE, ddg |-> FALSE, bing |-> FALSE]},
     ai : { [kind |-> "ok", content |-> c] : c \in SeqUpTo(ContentChars, n) }]

\* generate_email: the first name, the research, the AI call, the subject and
\* body returned
GenerateEmailCall ==
    /\ ~gen.done
    /\ LET in == gen.input
           company_clean == CompanyClean(in.company)
           r == SearchCompany(cache, company_clean, in.web)
           company_info == CompanySummary(company_clean, r.result)
       IN  /\ cache' = r.cache
           /\ gen' = [input |-> in,
                      output |-> GenerateEmail(in.hr_name, in.company,
                                               company_info, in.ai),
                      done |-> TRUE, first_name |-> FirstName(in.hr_name)]
    /\ UNCHANGED <<prodVars, calls, html>>

InitDraft ==
    /\ ProdIdle
    /\ cache = EmptyCache
    /\ calls = <<>>
    /\ gen \in { [input |-> in, output |-> <<>>, done |-> FALSE,
                  first_name |-> <<>>] : in \in DraftInputs(MaxContent) }
    /\ html = NoCall

NextDraft == GenerateEmailCall

SpecDraft == InitDraft /\ [][NextDraft]_vars

\* C4 as claimed: whatever the AI call does, generate_email returns a
\* non-empty subject and a non-empty body.
C4_DraftNeverEmpty ==
    gen.done => (gen.output.subject # <<>> /\ gen.output.body # <<>>)

\* the subject is never empty, and the body is empty only for a 200 answer
\* whose content is the empty string
C4_EmptyOnlyForEmptyContent ==
    gen.done =>
        /\ gen.output.subject # <<>>
        /\ gen.output.body = <<>> =>
              (gen.input.ai.kind = "ok" /\ gen.input.ai.content = <<>>)

\* the lines of the AI response, and those that begin with the marker
C12_Lines == SplitLines(Strip(gen.input.ai.content))

C12_MarkerLines ==
    { k \in 1..Len(C12_Lines) :
        C12_Lines[k] # <<>> /\ C12_Lines[k][1] \in {"SUBJECT:", "subject:"} }

C12_FirstMarker ==
    CHOOSE m \in C12_MarkerLines : \A k \in C12_MarkerLines : m <= k

\* the text after the marker on the first marker line, and all the lines that
\* follow that line, both without the surrounding whitespace
C12_SubjectText ==
    Strip(SubSeq(C12_Lines[C12_FirstMarker], 2, Len(C12_Lines[C12_FirstMarker])))

C12_FollowingLines ==
    Strip(JoinLines(SubSeq(C12_Lines, C12_FirstMarker + 1, Len(C12_Lines))))

C12_GenericSubject ==
    <<"Exploring Opportunities at ">> \o CompanyClean(gen.input.company)

\* C12 as claimed: when the AI response has a line beginning with 'SUBJECT:'
\* (in either case), the subject is the text after the marker on that line and
\* the body is all the lines that follow it, every one of them kept (checked
\* for the responses where that text and those lines are not blank, and up to
\* the whitespace around them); when no line begins with the marker, the body
\* is the whole response and the subject is the generic one.
C12_ParsedAsClaimed ==
    (gen.done /\ gen.input.ai.kind = "ok") =>
        IF C12_MarkerLines = {}
        THEN /\ gen.output.subject = C12_GenericSubject
             /\ gen.output.body = gen.input.ai.content
        ELSE (C12_SubjectText # <<>> /\ C12_FollowingLines # <<>>) =>
                /\ gen.output.subject = C12_SubjectText
                /\ gen.output.body = C12_FollowingLines

\* the same for the responses with at most one marker line: it holds
C12_ParsedWithOneMarker ==
    Cardinality(C12_MarkerLines) <= 1 => C12_ParsedAsClaimed

\* a response with two marker lines has been parsed
C12_TwoMarkersParsed ==
    /\ gen.done /\ gen.input.ai.kind = "ok"
    /\ Cardinality(C12_MarkerLines) = 2
    /\ C12_SubjectText # <<>> /\ C12_FollowingLines # <<>>

\* the honorifics of the claim
C14_Honorifics ==
    { <<"M", "r", ".">>, <<"M", "s", ".">>, <<"M", "r", "s", ".">>,
      <<"D", "r", ".">>, <<"M", "r">>, <<"M", "s">>, <<"M", "r", "s">>,
      <<"D", "r">> }

\* the first whitespace-separated token of a name, and what follows it
C14_Token(name) == FirstToken(LStrip(name))

C14_AfterToken(name) ==
    LET l == LStrip(name)
    IN  SubSeq(l, Len(C14_Token(name)) + 1, Len(l))

\* the first name as the claim describes it
C14_ClaimedFirstName(name) ==
    LET rest == IF C14_Token(name) \in C14_Honorifics
                THEN C14_AfterToken(name) ELSE name
    IN  IF C14_Token(rest) = <<>> THEN <<"Hiring Manager">>
        ELSE C14_Token(rest)

\* C14 as claimed: the first name generate_email uses is the first
\* whitespace-separated token of the display name after a leading honorific
\* (Mr., Ms., Mrs., Dr., Mr, Ms, Mrs, Dr) is removed; the first token
\* unchanged when it is none of these; 'Hiring Manager' when nothing is left.
C14_FirstNameAsClaimed ==
    gen.done => gen.first_name = C14_ClaimedFirstName(gen.input.hr_name)

\* it holds for the other names tried: no name, 'Dr. a', 'Mr' and 'a b'
C14_FirstNameOfOtherNames ==
    (/\ gen.done
     /\ gen.input.hr_name \notin {<<"M", "r", "s", " ", "a">>, <<"M", "r", "i">>})
        => gen.first_name = C14_ClaimedFirstName(gen.input.hr_name)

\* the fallback email has been written for 'Mrs a'
C14_MrsDrafted ==
    /\ gen.done
    /\ gen.input.hr_name = <<"M", "r", "s", " ", "a">>
    /\ gen.input.ai.kind # "ok"
    /\ gen.first_name = <<"s">>
    /\ SubSeq(gen.output.body, 1, 3) = <<"Dear ", "s", ",">>

(***************************************************************************)
(* The mailer's HTML conversion (specification SpecHtml): one call of      *)
(* _convert_to_html.  The text is a sequence of characters; "LinkedIn:"    *)
(* and the URL prefix the regular expression asks for are one element      *)
(* each.  What the converter generates is one element each as well         *)
(* (entities, tags), so that a character of the input and a character the  *)
(* converter wrote can be told apart in the result.                        *)
(***************************************************************************)
MaxSegs == 5          \* pieces of HtmlPieces a body text is made of

LinkedInLabel == "LinkedIn:"

UrlPrefix == "https://linkedin.com/"

linkedin_placeholder == "___LINKEDIN_LINK___"

AnchorOpen == "<a href=\""

AnchorClose == "\" style=\"color: #0077B5; text-decoration: none;\">LinkedIn</a>"

\* the index of the first character from j on that is no whitespace
RECURSIVE SkipSpaces(_, _)
SkipSpaces(t, j) ==
    IF j <= Len(t) /\ IsSpace(t[j]) THEN SkipSpaces(t, j + 1) ELSE j

\* the index of the last character of the run of non-whitespace from k on
\* (k - 1 when there is none): [^\s]+ is greedy
RECURSIVE NonSpaceEnd(_, _)
NonSpaceEnd(t, k) ==
    IF k <= Len(t) /\ ~IsSpace(t[k]) THEN NonSpaceEnd(t, k + 1) ELSE k - 1

\* LinkedIn:\s*(https?://(?:www\.)?linkedin\.com/[^\s]+) matched at index i
LinkedInMatchAt(t, i) ==
    LET j == SkipSpaces(t, i + 1)
        e == NonSpaceEnd(t, j + 1)
    IN  IF i <= Len(t) /\ t[i] = LinkedInLabel /\ j <= Len(t)
           /\ t[j] = UrlPrefix /\ e >= j + 1
        THEN [ok |-> TRUE, from |-> j, to |-> e]
        ELSE [ok |-> FALSE, from |-> 0, to |-> 0]

\* re.search: group 1 of the leftmost match from index i on, "" without a match
RECURSIVE SearchLinkedIn(_, _)
SearchLinkedIn(t, i) ==
    IF i > Len(t) THEN <<>>
    ELSE LET m == LinkedInMatchAt(t, i)
         IN  IF m.ok THEN SubSeq(t, m.from, m.to) ELSE SearchLinkedIn(t, i + 1)

\* re.sub(pattern, linkedin_placeholder, text), from index i on
RECURSIVE SubLinkedIn(_, _)
SubLinkedIn(t, i) ==
    IF i > Len(t) THEN <<>>
    ELSE LET m == LinkedInMatchAt(t, i)
         IN  IF m.ok THEN <<linkedin_placeholder>> \o SubLinkedIn(t, m.to + 1)
             ELSE <<t[i]>> \o SubLinkedIn(t, i + 1)

\* the escaping without its last replace: '>' is left as it is
EscapeChar_NoGt(c) ==
    CASE c = "&" -> "&amp;"
      [] c = "<" -> "&lt;"
      [] OTHER -> c

\* .replace('&', '&amp;').replace('<', '&lt;').replace('>', '&gt;'), on one
\* character
EscapeChar(c) ==
    CASE c = "&" -> "&amp;"
      [] c = "<" -> "&lt;"
      [] c = ">" -> "&gt;"
      [] OTHER -> c

EscapeHtml(t) == [i \in 1..Len(t) |-> EscapeChar(t[i])]

\* text.replace(old, new): every element old replaced by the sequence new
RECURSIVE ReplaceAll(_, _, _)
ReplaceAll(t, old, new) ==
    IF t = <<>> THEN <<>>
    ELSE (IF Head(t) = old THEN new ELSE <<Head(t)>>)
         \o ReplaceAll(Tail(t), old, new)

\* the index of the last character of the run of non-asterisks from k on
RECURSIVE NonStarEnd(_, _)
NonStarEnd(t, k) ==
    IF k <= Len(t) /\ t[k] # "*" THEN NonStarEnd(t, k + 1) ELSE k - 1

\* \*\*([^*]+)\*\* matched at index i: the index of the last character of
\* group 1, 0 without a match
BoldMatchAt(t, i) ==
    LET e == NonStarEnd(t, i + 2)
    IN  IF i + 1 <= Len(t) /\ t[i] = "*" /\ t[i + 1] = "*" /\ e >= i + 2
           /\ e + 2 <= Len(t) /\ t[e + 1] = "*" /\ t[e + 2] = "*"
        THEN e ELSE 0

\* re.sub(r'\*\*([^*]+)\*\*', r'<strong>\1</strong>', text), from index i on
RECURSIVE SubBold(_, _)
SubBold(t, i) ==
    IF i > Len(t) THEN <<>>
    ELSE LET e == BoldMatchAt(t, i)
         IN  IF e # 0
             THEN <<"<strong>">> \o SubSeq(t, i + 2, e) \o <<"</strong>">>
                  \o SubBold(t, e + 3)
             ELSE <<t[i]>> \o SubBold(t, i + 1)

\* the body of the HTML document _convert_to_html builds from text
ConvertedBody(text) ==
    LET linkedin_url == SearchLinkedIn(text, 1)
        t1 == IF linkedin_url # <<>> THEN SubLinkedIn(text, 1) ELSE text
        t2 == EscapeHtml(t1)
        t3 == IF linkedin_url # <<>>
              THEN ReplaceAll(t2, linkedin_placeholder,
                              <<AnchorOpen>> \o linkedin_url \o <<AnchorClose>>)
              ELSE t2
        t4 == SubBold(t3, 1)
    IN  ReplaceAll(t4, "\n", <<"<br>", "\n">>)

\* _convert_to_html
ConvertToHtml(text) ==
    <<"<html><body style=...>">> \o ConvertedBody(text) \o <<"</body></html>">>

\* the pieces the body texts tried are made of
HtmlPieces ==
    { <<"<">>, <<">">>, <<"&">>, <<"*", "*">>, <<"a">>, <<" ">>, <<"\n">>,
      <<LinkedInLabel, " ", UrlPrefix>> }

RECURSIVE Flatten(_)
Flatten(ss) == IF ss = <<>> THEN <<>> ELSE Head(ss) \o Flatten(Tail(ss))

\* the body texts of at most n pieces
HtmlTexts(n) == { Flatten(ss) : ss \in SeqUpTo(HtmlPieces, n) }

\* html_body = self._convert_to_html(body)
ConvertToHtmlCall ==
    /\ ~html.done
    /\ html' = [input |-> html.input, output |-> ConvertToHtml(html.input),
                done |-> TRUE]
    /\ UNCHANGED <<prodVars, cache, calls, gen>>

InitHtml ==
    /\ ProdIdle
    /\ cache = EmptyCache
    /\ calls = <<>>
    /\ gen = NoCall
    /\ html \in { [input |-> t, output |-> <<>>, done |-> FALSE] : t \in HtmlTexts(MaxSegs) }

NextHtml == ConvertToHtmlCall

SpecHtml == InitHtml /\ [][NextHtml]_vars

\* the converted body: the document without its first and last element
HtmlBody == SubSeq(html.output, 2, Len(html.output) - 1)

\* element k of the converted body b is inside the href value of an anchor
InHref(b, k) ==
    \E a \in 1..(k - 1) :
        b[a] = AnchorOpen /\ \A m \in (a + 1)..k : b[m] # AnchorClose

\* the href value of the anchor opened at index a of b
HrefAt(b, a) ==
    LET c == CHOOSE c \in (a + 1)..Len(b) :
                 b[c] = AnchorClose /\ \A m \in (a + 1)..(c - 1) : b[m] # AnchorClose
    IN  SubSeq(b, a + 1, c - 1)

CountOf(t, c) == Cardinality({ k \in 1..Len(t) : t[k] = c })

\* the URLs of the 'LinkedIn: <url>' spans of t from index i on, in order
RECURSIVE SpanUrls(_, _)
SpanUrls(t, i) ==
    IF i > Len(t) THEN <<>>
    ELSE LET m == LinkedInMatchAt(t, i)
         IN  IF m.ok THEN <<SubSeq(t, m.from, m.to)>> \o SpanUrls(t, m.to + 1)
             ELSE SpanUrls(t, i + 1)

\* the indices of the anchors of b, in order
AnchorIndices(b) ==
    LET idx == { a \in 1..Len(b) : b[a] = AnchorOpen }
    IN  [n \in 1..Cardinality(idx) |->
            CHOOSE a \in idx : Cardinality({ x \in idx : x < a }) = n - 1]

\* an unconverted **x** span starts at index i of t: x is not empty and holds
\* no asterisk and no strong tag
BoldSpanAt(t, i) ==
    \E e \in (i + 2)..(Len(t) - 2) :
        /\ t[i] = "*" /\ t[i + 1] = "*" /\ t[e + 1] = "*" /\ t[e + 2] = "*"
        /\ \A m \in (i + 2)..e : t[m] \notin {"*", "<strong>", "</strong>"}

HasDoubleStar(t) == \E k \in 1..(Len(t) - 1) : t[k] = "*" /\ t[k + 1] = "*"

C10_WitnessRawInHref ==
    /\ html.done
    /\ \E k \in 1..Len(HtmlBody) : HtmlBody[k] = "<" /\ InHref(HtmlBody, k)
    /\ CountOf(HtmlBody, "&lt;") = 1

====
